---------------------------- MODULE Spec2Model ----------------------------
(***************************************************************************)
(* Model of the attention-span analysis service                            *)
(* (src/attentionspan/attention_service.py): the AttentionAnalyzer with    *)
(* its live session table, the three HTTP endpoints and the WebSocket      *)
(* streaming loop.                                                         *)
(*                                                                         *)
(* Numbers.  eye_aspect_ratio is kept in hundredths (0.23 is 23), tilt in  *)
(* whole degrees, camera_quality in whole points.  A Python float that is  *)
(* the quotient of two integers (attention_score, the np.mean values) is   *)
(* kept as a reduced fraction [num, den]; 0 is [num |-> 0, den |-> 1].     *)
(*                                                                         *)
(* Scheduling.  The service runs on one asyncio event loop.  A coroutine   *)
(* gives up the loop only at an await that really suspends: accept,        *)
(* receive_text and send_json of the WebSocket.  _update_session_metrics   *)
(* and _save_session_to_db contain no such await, so analyze_frame and     *)
(* end_session each run as one step.                                       *)
(***************************************************************************)
EXTENDS Integers, Sequences, FiniteSets, TLC

VARIABLES
    DLIB_AVAILABLE,      \* module flag set at import (line 34-40)
    sessions,            \* AttentionAnalyzer.sessions: id -> session dict
    used,                \* ids uuid4 has produced so far
    active_connections,  \* module dict: session id -> websocket
    conns,               \* one websocket_attention_analysis coroutine each
    db_attempts,         \* id -> number of _save_session_to_db calls
    resp                 \* the HTTP response of the step just taken

vars == <<DLIB_AVAILABLE, sessions, used, active_connections, conns,
          db_attempts, resp>>

----------------------------------------------------------------------------
(* Bounds and input sets *)

MaxFrames == 2       \* frames held by the live sessions together
MaxHistory == 8      \* history length drawn by the finalization specification

SessionIds == {"s1", "s2"}
Conns == {"w1", "w2"}
Children == {"c1"}
Modules == {"m1"}

EarInputs == {22, 23}
TiltInputs == {20}
QualityInputs == {60}

(* Program constants *)
EAR_THRESH == 23     \* 0.23, in hundredths
ANGLE_MAX == 20
DefaultEar == 30     \* 0.3, the Haar-cascade default, in hundredths
HighScore == 80
MediumScore == 50

NotFoundStatus == 404
ServerErrorStatus == 500
OkStatus == 200

----------------------------------------------------------------------------
(* Fractions *)

RECURSIVE GCD(_, _)
GCD(a, b) == IF b = 0 THEN a ELSE GCD(b, a % b)

Rat(n, d) == LET g == GCD(n, d) IN [num |-> n \div g, den |-> d \div g]

Zero == [num |-> 0, den |-> 1]

RatGeq(r, k) == r.num >= k * r.den

RECURSIVE SumSeq(_)
SumSeq(s) == IF s = <<>> THEN 0 ELSE Head(s) + SumSeq(Tail(s))

RECURSIVE MaxSeq(_)
MaxSeq(s) == IF Len(s) = 1 THEN s[1]
             ELSE LET m == MaxSeq(Tail(s)) IN IF Head(s) >= m THEN Head(s) ELSE m

Mean(s) == Rat(SumSeq(s), Len(s))

----------------------------------------------------------------------------
(* What the frame pipeline can meet in one inbound frame.                  *)
(*   undecodable      b64decode / imdecode fails (line 210-215)            *)
(*   detector_raises  the frame decodes, the detector or predictor raises  *)
(*   noface           the detector returns no face                         *)
(*   face             a face; ear and tilt are what the landmarks give     *)

Observations ==
    {[kind |-> k, ear |-> 0, tilt |-> 0, quality |-> 0] :
        k \in {"undecodable"}}
    \cup {[kind |-> k, ear |-> 0, tilt |-> 0, quality |-> q] :
        k \in {"detector_raises", "noface"}, q \in QualityInputs}
    \cup {[kind |-> "face", ear |-> e, tilt |-> t, quality |-> q] :
        e \in EarInputs, t \in TiltInputs, q \in QualityInputs}

(* the frames sent on a stream in the main specification: a face, when there
   is one, sits on both thresholds *)
StreamObservations ==
    {o \in Observations :
        o.kind = "face" => (o.ear = EAR_THRESH /\ o.tilt = ANGLE_MAX)}

Metrics(sid, att, ear, tilt, face, quality) ==
    [session_id |-> sid, is_attentive |-> att, eye_aspect_ratio |-> ear,
     head_tilt_degrees |-> tilt, face_detected |-> face,
     camera_quality |-> quality]

(* the except branch of analyze_frame, line 328-339 *)
DefaultMetrics(sid) == Metrics(sid, FALSE, 0, 0, FALSE, 0)

(* the dict appended by _update_session_metrics, line 347-354 *)
FrameOf(m) ==
    [is_attentive |-> m.is_attentive, ear |-> m.eye_aspect_ratio,
     tilt |-> m.head_tilt_degrees, face_detected |-> m.face_detected,
     camera_quality |-> m.camera_quality]

IsAttentive(f) == f.is_attentive
FaceDetected(f) == f.face_detected
Ears(frames) == [i \in 1..Len(frames) |-> frames[i].ear]
Tilts(frames) == [i \in 1..Len(frames) |-> frames[i].tilt]
Qualities(frames) == [i \in 1..Len(frames) |-> frames[i].camera_quality]

(* a variant whose score divides by the frames with a face *)
StatsOf_score_over_faces(frames) ==
    LET total_frames == Len(frames)
        attentive_frames == Len(SelectSeq(frames, IsAttentive))
        with_face == SelectSeq(frames, FaceDetected)
    IN  [total_frames |-> total_frames,
         attentive_frames |-> attentive_frames,
         attention_score |->
             IF Len(with_face) > 0
             THEN Rat(attentive_frames * 100, Len(with_face))
             ELSE Zero,
         avg_ear |->
             IF Len(with_face) > 0 THEN Mean(Ears(with_face))
             ELSE Zero,
         avg_tilt |->
             IF Len(with_face) > 0 THEN Mean(Tilts(with_face))
             ELSE Zero,
         frames_with_face |-> Len(with_face),
         frames_without_face |-> Len(frames) - Len(with_face),
         avg_camera_quality |-> Mean(Qualities(frames))]

(* session['stats'] as rebuilt at line 356-369 from the whole history *)
StatsOf(frames) ==
    LET total_frames == Len(frames)
        attentive_frames == Len(SelectSeq(frames, IsAttentive))
        with_face == SelectSeq(frames, FaceDetected)
    IN  [total_frames |-> total_frames,
         attentive_frames |-> attentive_frames,
         attention_score |->
             IF total_frames > 0 THEN Rat(attentive_frames * 100, total_frames)
             ELSE Zero,
         avg_ear |->
             IF Len(with_face) > 0 THEN Mean(Ears(with_face))
             ELSE Zero,
         avg_tilt |->
             IF Len(with_face) > 0 THEN Mean(Tilts(with_face))
             ELSE Zero,
         frames_with_face |-> Len(with_face),
         frames_without_face |-> Len(frames) - Len(with_face),
         avg_camera_quality |-> Mean(Qualities(frames))]

(* the empty dict start_session stores under 'stats', line 381 *)
EmptyStats == [k \in {} |-> 0]

(* dict.get(key, default) *)
StatsGet(stats, key, default) ==
    IF key \in DOMAIN stats THEN stats[key] ELSE default


None == [none |-> TRUE]

----------------------------------------------------------------------------
(* a variant that rebuilds the statistics only for a frame with a face *)
update_session_metrics_stale(sess, sid, metrics) ==
    IF sid \notin DOMAIN sess THEN sess
    ELSE LET frames == Append(sess[sid].frames, FrameOf(metrics))
         IN  [sess EXCEPT ![sid] =
                 [@ EXCEPT !.frames = frames,
                           !.stats = IF metrics.face_detected
                                     THEN StatsOf(frames) ELSE @]]

(* a variant that keeps one statistics dict for the whole analyzer: the
   rebuilt statistics land in every live session *)
update_session_metrics_shared(sess, sid, metrics) ==
    IF sid \notin DOMAIN sess THEN sess
    ELSE LET frames == Append(sess[sid].frames, FrameOf(metrics))
         IN  [i \in DOMAIN sess |->
                 IF i = sid
                 THEN [sess[i] EXCEPT !.frames = frames,
                                      !.stats = StatsOf(frames)]
                 ELSE [sess[i] EXCEPT !.stats = StatsOf(frames)]]

(* a variant that puts the new frame at the front of the history *)
update_session_metrics_prepends(sess, sid, metrics) ==
    IF sid \notin DOMAIN sess THEN sess
    ELSE LET frames == <<FrameOf(metrics)>> \o sess[sid].frames
         IN  [sess EXCEPT ![sid] =
                 [@ EXCEPT !.frames = frames, !.stats = StatsOf(frames)]]

(* AttentionAnalyzer._update_session_metrics, line 341-369 *)
update_session_metrics(sess, sid, metrics) ==
    IF sid \notin DOMAIN sess THEN sess
    ELSE LET frames == Append(sess[sid].frames, FrameOf(metrics))
         IN  [sess EXCEPT ![sid] =
                 [@ EXCEPT !.frames = frames, !.stats = StatsOf(frames)]]

(* Eye geometry.  An eye center is the mean of the six landmarks of the eye
   (line 250-251); the centers drawn here lie on the unit square, so every
   vector between two of them has an angle that is a multiple of 45 degrees. *)
EyeCoords == {0, 1}

Centers == {[x |-> a, y |-> b] : a \in EyeCoords, b \in EyeCoords}

(* abs(math.degrees(math.atan2(dy, dx))) for dy and dx in {-1, 0, 1};
   atan2(0, 0) is 0 *)
AbsAtan2Degrees(dy, dx) ==
    IF dy = 0 THEN (IF dx >= 0 THEN 0 ELSE 180)
    ELSE IF dx = 0 THEN 90
    ELSE IF dx > 0 THEN 45
    ELSE 135

(* a variant without the dx == 0 test *)
angle_between_eyes_unguarded(left_center, right_center) ==
    LET dx == right_center.x - left_center.x
        dy == right_center.y - left_center.y
    IN  AbsAtan2Degrees(dy, dx)

(* angle_between_eyes, line 162-168 *)
angle_between_eyes(left_center, right_center) ==
    LET dx == right_center.x - left_center.x
        dy == right_center.y - left_center.y
    IN  IF dx = 0 THEN 90 ELSE AbsAtan2Degrees(dy, dx)

(* what the landmark path of line 246-258 hands to the classification for a
   face whose eye ratio is ear and whose eye centers are left_center and
   right_center *)
Landmarks(ear, left_center, right_center, quality) ==
    [kind |-> "face", ear |-> ear,
     tilt |-> angle_between_eyes(left_center, right_center),
     quality |-> quality]

(* whether the try block of analyze_frame raises, line 198-326 *)
FrameRaises(obs) == obs.kind \in {"undecodable", "detector_raises"}

(* a variant whose Haar path reports the measured values of the frame *)
Measure_haar_measures(dlib, obs) ==
    LET face_detected == obs.kind = "face"
    IN  [face_detected |-> face_detected,
         eye_aspect_ratio_value |-> IF ~face_detected THEN 0 ELSE obs.ear,
         head_tilt_degrees |-> IF ~face_detected THEN 0 ELSE obs.tilt,
         camera_quality |-> obs.quality]

(* the measurements of line 229-279: landmarks with dlib, fixed values with
   the Haar cascade *)
Measure(dlib, obs) ==
    LET face_detected == obs.kind = "face"
    IN  [face_detected |-> face_detected,
         eye_aspect_ratio_value |->
             IF ~face_detected THEN 0
             ELSE IF dlib THEN obs.ear ELSE DefaultEar,
         head_tilt_degrees |->
             IF ~face_detected THEN 0
             ELSE IF dlib THEN obs.tilt ELSE 0,
         camera_quality |-> obs.quality]

(* a variant without the early return of line 280-292: a frame without a
   face goes through the thresholds and leaves with face_detected set *)
Classify_no_face_branch(sid, m) ==
    LET eyes_open == m.eye_aspect_ratio_value >= EAR_THRESH
        head_forward == m.head_tilt_degrees <= ANGLE_MAX
    IN  Metrics(sid, eyes_open /\ head_forward, m.eye_aspect_ratio_value,
                m.head_tilt_degrees, TRUE, m.camera_quality)

(* a variant whose eye threshold is exclusive *)
Classify_strict(sid, m) ==
    IF ~m.face_detected
    THEN Metrics(sid, FALSE, 0, 0, FALSE, m.camera_quality)
    ELSE LET eyes_open == m.eye_aspect_ratio_value > EAR_THRESH
             head_forward == m.head_tilt_degrees <= ANGLE_MAX
         IN  Metrics(sid, eyes_open /\ head_forward, m.eye_aspect_ratio_value,
                     m.head_tilt_degrees, TRUE, m.camera_quality)

(* the verdict of line 280-323 *)
Classify(sid, m) ==
    IF ~m.face_detected
    THEN Metrics(sid, FALSE, 0, 0, FALSE, m.camera_quality)
    ELSE LET eyes_open == m.eye_aspect_ratio_value >= EAR_THRESH
             head_forward == m.head_tilt_degrees <= ANGLE_MAX
         IN  Metrics(sid, eyes_open /\ head_forward, m.eye_aspect_ratio_value,
                     m.head_tilt_degrees, TRUE, m.camera_quality)

(* a variant without the except branch: the exception leaves analyze_frame *)
analyze_frame_propagates(dlib, sess, obs, sid) ==
    IF FrameRaises(obs)
    THEN [raised |-> TRUE, metrics |-> None, sessions |-> sess]
    ELSE LET metrics == Classify(sid, Measure(dlib, obs))
         IN  [raised |-> FALSE, metrics |-> metrics,
              sessions |-> update_session_metrics(sess, sid, metrics)]

(* AttentionAnalyzer.analyze_frame, line 196-339: the value returned and the
   session table it leaves behind; raised says whether an exception leaves
   the call *)
analyze_frame(dlib, sess, obs, sid) ==
    IF FrameRaises(obs)
    THEN [raised |-> FALSE, metrics |-> DefaultMetrics(sid), sessions |-> sess]
    ELSE LET metrics == Classify(sid, Measure(dlib, obs))
         IN  [raised |-> FALSE, metrics |-> metrics,
              sessions |-> update_session_metrics(sess, sid, metrics)]

----------------------------------------------------------------------------
(* AttentionAnalyzer.end_session, line 386-437 *)

(* a variant that does not reset current_span at a break *)
ScanStep_keeps_span(st, frame) ==
    IF frame.is_attentive
    THEN [st EXCEPT !.current_span = @ + 1]
    ELSE IF st.current_span > 0
         THEN [current_span |-> st.current_span,
               attention_spans |-> Append(st.attention_spans, st.current_span),
               breaks |-> st.breaks + 1]
         ELSE st

(* one iteration of the loop of line 404-411 *)
ScanStep(st, frame) ==
    IF frame.is_attentive
    THEN [st EXCEPT !.current_span = @ + 1]
    ELSE IF st.current_span > 0
         THEN [current_span |-> 0,
               attention_spans |-> Append(st.attention_spans, st.current_span),
               breaks |-> st.breaks + 1]
         ELSE st

RECURSIVE ScanFrames(_, _, _)
ScanFrames(frames, i, st) ==
    IF i > Len(frames) THEN st
    ELSE ScanFrames(frames, i + 1, ScanStep(st, frames[i]))

(* a variant that counts the trailing run as a break *)
TrailingSpan_counts_break(st) ==
    IF st.current_span > 0
    THEN [st EXCEPT !.attention_spans = Append(@, st.current_span),
                    !.breaks = @ + 1]
    ELSE st

(* a variant that forgets the trailing run *)
TrailingSpan_dropped(st) == st

(* line 413-414 *)
TrailingSpan(st) ==
    IF st.current_span > 0
    THEN [st EXCEPT !.attention_spans = Append(@, st.current_span)]
    ELSE st

(* line 399-414 *)
RunLengths(frames) ==
    TrailingSpan(ScanFrames(frames, 1,
        [current_span |-> 0, attention_spans |-> <<>>, breaks |-> 0]))

(* a variant whose upper threshold is exclusive *)
EngagementLevel_strict(score) ==
    IF RatGeq(score, HighScore) /\ score.num # HighScore * score.den
    THEN "high"
    ELSE IF RatGeq(score, MediumScore) THEN "medium"
    ELSE "low"

(* line 423 *)
EngagementLevel(score) ==
    IF RatGeq(score, HighScore) THEN "high"
    ELSE IF RatGeq(score, MediumScore) THEN "medium"
    ELSE "low"

(* line 416-429 *)
BuildSummary(sid, session) ==
    LET stats == session.stats
        runs == RunLengths(session.frames)
        attention_spans == runs.attention_spans
        score == StatsGet(stats, "attention_score", Zero)
    IN  [session_id |-> sid,
         child_id |-> session.child_id,
         module_id |-> session.module_id,
         attention_score |-> score,
         engagement_level |-> EngagementLevel(score),
         total_frames |-> StatsGet(stats, "total_frames", 0),
         attentive_frames |-> StatsGet(stats, "attentive_frames", 0),
         attention_breaks |-> runs.breaks,
         longest_attention_span |->
             IF attention_spans # <<>> THEN MaxSeq(attention_spans) ELSE 0,
         avg_attention_span |->
             IF attention_spans # <<>> THEN Mean(attention_spans) ELSE Zero]

(* AttentionAnalyzer._save_session_to_db, line 439-511.  psycopg2.connect
   may raise; when it does not, building the parameter tuple reads
   summary.face_detected_frames, which SessionSummary does not have, and
   raises AttributeError before the INSERT.  Both are caught at line 509. *)
DbOutcomes == {"connect_raises", "insert_raises"}

(* a variant without the except clause of line 509 *)
save_session_to_db_raises(outcome) == "raised"

save_session_to_db(outcome) == "returned"

(* the check of line 388-397: which ValueError end_session raises *)
NotFoundDetail == "Session not found"
EmptyDetail == "No frames analyzed in session"

(* a variant without the check of line 396-397 *)
EndSessionError_no_empty_check(sess, sid) ==
    IF sid \notin DOMAIN sess THEN NotFoundDetail ELSE "none"

EndSessionError(sess, sid) ==
    IF sid \notin DOMAIN sess THEN NotFoundDetail
    ELSE IF sess[sid].frames = <<>> THEN EmptyDetail
    ELSE "none"

(* a variant without the del of line 435 *)
RemoveSession_keeps(sess, sid) == sess

(* del self.sessions[session_id], line 435 *)
RemoveSession(sess, sid) == [i \in DOMAIN sess \ {sid} |-> sess[i]]

Response(op, id, status, detail, body) ==
    [op |-> op, id |-> id, status |-> status, detail |-> detail, body |-> body]

(* the step just taken was not an HTTP request *)
NoResponse == Response("none", "none", OkStatus, "none", None)

----------------------------------------------------------------------------
(* State *)

ClosedConn == [pc |-> "closed", sid |-> "none", metrics |-> None]

Live == DOMAIN sessions

Init ==
    /\ DLIB_AVAILABLE \in BOOLEAN
    /\ sessions = [i \in {} |-> None]
    /\ used = {}
    /\ active_connections = [i \in {} |-> "none"]
    /\ conns = [c \in Conns |-> ClosedConn]
    /\ db_attempts = [i \in SessionIds |-> 0]
    /\ resp = NoResponse

----------------------------------------------------------------------------
(* HTTP endpoints *)

(* AttentionAnalyzer.start_session, line 371-384, behind POST /sessions/start,
   line 546-553.  uuid4 is taken to return an id it has not returned before;
   ids are opaque, so one unused id stands for any of them. *)
FreshId == CHOOSE id \in SessionIds \ used : TRUE

NewSession(child, module) ==
    [child_id |-> child, module_id |-> module, frames |-> <<>>,
     stats |-> EmptyStats]

StartSession(child, module) ==
    LET id == FreshId
    IN  /\ used # SessionIds
        /\ sessions' = [i \in Live \cup {id} |->
                          IF i = id THEN NewSession(child, module)
                          ELSE sessions[i]]
        /\ used' = used \cup {id}
        /\ resp' = Response("start_session", id, OkStatus, "none",
                            [session_id |-> id, status |-> "started"])
        /\ UNCHANGED <<DLIB_AVAILABLE, active_connections, conns, db_attempts>>

(* a variant that drops the session before the history is looked at *)
StampEndTime_drops(sess, sid) == RemoveSession(sess, sid)

(* session['end_time'] = datetime.now(timezone.utc), line 392: the key is
   added to the session dict (or overwritten) before the history is looked
   at; the instant itself is not modelled *)
StampEndTime(sess, sid) ==
    IF sid \notin DOMAIN sess THEN sess
    ELSE [sess EXCEPT ![sid] =
             [k \in DOMAIN sess[sid] \cup {"end_time"} |->
                 IF k = "end_time" THEN "set" ELSE sess[sid][k]]]

(* AttentionAnalyzer.end_session, line 386-437, behind POST /sessions/end,
   line 555-564: a ValueError becomes 404, anything else 500.  A call that
   is refused for an empty history has stamped end_time by then. *)
EndSession(id, outcome) ==
    LET err == EndSessionError(sessions, id)
    IN  /\ UNCHANGED <<DLIB_AVAILABLE, used, active_connections, conns>>
        /\ IF err # "none"
           THEN /\ resp' = Response("end_session", id, NotFoundStatus, err, None)
                /\ sessions' = StampEndTime(sessions, id)
                /\ UNCHANGED db_attempts
           ELSE LET summary == BuildSummary(id, sessions[id])
                IN  /\ db_attempts' = [db_attempts EXCEPT ![id] = @ + 1]
                    /\ IF save_session_to_db(outcome) = "returned"
                       THEN /\ sessions' = RemoveSession(sessions, id)
                            /\ resp' = Response("end_session", id, OkStatus,
                                                "none", summary)
                       ELSE /\ UNCHANGED sessions
                            /\ resp' = Response("end_session", id,
                                                ServerErrorStatus, outcome, None)

(* get_session_stats, line 566-578 *)
GetSessionStats(id) ==
    /\ resp' = IF id \notin Live
               THEN Response("get_session_stats", id, NotFoundStatus,
                             NotFoundDetail, None)
               ELSE Response("get_session_stats", id, OkStatus, "none",
                             [session_id |-> id,
                              child_id |-> sessions[id].child_id,
                              stats |-> sessions[id].stats])
    /\ UNCHANGED <<DLIB_AVAILABLE, sessions, used, active_connections, conns,
                   db_attempts>>

----------------------------------------------------------------------------
(* websocket_attention_analysis, line 581-625.  pc is where the coroutine is
   suspended: receive (receive_text), send_metrics (the first send_json),
   send_stats (the second send_json); closed when it is not running.
   metrics is the verdict of the loop body: it is the message of the first
   send_json while that send is pending and None once it is no longer read.
   The stats message is serialized from sessions[sid].stats in the step that
   starts the second send_json (StatsMessage). *)

(* line 584-588 *)
WsConnect(c, sid) ==
    /\ conns[c].pc = "closed"
    /\ conns' = [conns EXCEPT ![c] = [ClosedConn EXCEPT !.pc = "receive",
                                                        !.sid = sid]]
    /\ active_connections' =
           [i \in DOMAIN active_connections \cup {sid} |->
               IF i = sid THEN c ELSE active_connections[i]]
    /\ resp' = NoResponse
    /\ UNCHANGED <<DLIB_AVAILABLE, sessions, used, db_attempts>>

(* a variant whose finally clause leaves the connection table alone *)
Cleanup_leaks(conn_table, sid) == conn_table

(* the finally clause, line 623-625 *)
Cleanup(conn_table, sid) ==
    IF sid \in DOMAIN conn_table
    THEN [i \in DOMAIN conn_table \ {sid} |-> conn_table[i]]
    ELSE conn_table

(* the number of frames the sessions ids hold together *)
RECURSIVE HeldFrames(_, _)
HeldFrames(sess, ids) ==
    IF ids = {} THEN 0
    ELSE LET i == CHOOSE x \in ids : TRUE
         IN  Len(sess[i].frames) + HeldFrames(sess, ids \ {i})

(* line 592-598: a frame arrives, is analyzed, and the verdict is handed to
   send_json *)
WsFrame(c, obs) ==
    LET sid == conns[c].sid
        r == analyze_frame(DLIB_AVAILABLE, sessions, obs, sid)
    IN  /\ conns[c].pc = "receive"
        /\ sid \in Live => HeldFrames(sessions, Live) < MaxFrames
        /\ sessions' = r.sessions
        /\ IF r.raised
           THEN /\ conns' = [conns EXCEPT ![c] = ClosedConn]
                /\ active_connections' = Cleanup(active_connections, sid)
           ELSE /\ conns' = [conns EXCEPT ![c] =
                               [@ EXCEPT !.pc = "send_metrics",
                                         !.metrics = r.metrics]]
                /\ UNCHANGED active_connections
        /\ resp' = NoResponse
        /\ UNCHANGED <<DLIB_AVAILABLE, used, db_attempts>>

(* a variant that builds a stats message whether or not the session is
   live *)
StatsMessage_always(sess, sid) ==
    [type |-> "session_stats",
     data |-> IF sid \in DOMAIN sess THEN sess[sid].stats ELSE EmptyStats]

(* line 612-613: the stats message, built when the session is in the live
   table once the verdict has gone out *)
StatsMessage(sess, sid) ==
    IF sid \in DOMAIN sess
    THEN [type |-> "session_stats", data |-> sess[sid].stats]
    ELSE None

(* line 598-617: the verdict has gone out; the stats message is handed to
   send_json when there is one *)
WsSendMetrics(c) ==
    LET sid == conns[c].sid
    IN  /\ conns[c].pc = "send_metrics"
        /\ conns' = [conns EXCEPT ![c] =
              IF StatsMessage(sessions, sid) # None
              THEN [@ EXCEPT !.pc = "send_stats", !.metrics = None]
              ELSE [@ EXCEPT !.pc = "receive", !.metrics = None]]
        /\ resp' = NoResponse
        /\ UNCHANGED <<DLIB_AVAILABLE, sessions, used, active_connections,
                       db_attempts>>

(* line 614-617 and back to line 592 *)
WsSendStats(c) ==
    /\ conns[c].pc = "send_stats"
    /\ conns' = [conns EXCEPT ![c] =
                    [@ EXCEPT !.pc = "receive"]]
    /\ resp' = NoResponse
    /\ UNCHANGED <<DLIB_AVAILABLE, sessions, used, active_connections,
                   db_attempts>>

(* line 619-625: receive_text or send_json raises (the client went away) *)
WsDisconnect(c) ==
    /\ conns[c].pc # "closed"
    /\ conns' = [conns EXCEPT ![c] = ClosedConn]
    /\ active_connections' = Cleanup(active_connections, conns[c].sid)
    /\ resp' = NoResponse
    /\ UNCHANGED <<DLIB_AVAILABLE, sessions, used, db_attempts>>

----------------------------------------------------------------------------
Next ==
    \/ \E child \in Children, module \in Modules : StartSession(child, module)
    \/ \E id \in SessionIds, outcome \in DbOutcomes : EndSession(id, outcome)
    \/ \E id \in SessionIds : GetSessionStats(id)
    \/ \E c \in Conns, sid \in SessionIds : WsConnect(c, sid)
    \/ \E c \in Conns, obs \in StreamObservations : WsFrame(c, obs)
    \/ \E c \in Conns : WsSendMetrics(c)
    \/ \E c \in Conns : WsSendStats(c)
    \/ \E c \in Conns : WsDisconnect(c)

Spec == Init /\ [][Next]_vars

----------------------------------------------------------------------------
(* Finalization on its own: one live session whose history is any sequence of
   up to MaxHistory frames the pipeline can append, with the statistics
   _update_session_metrics leaves after the last append; the requests are
   end_session and get_session_stats. *)

FrameValues(dlib) ==
    {FrameOf(Classify("s1", Measure(dlib, o))) :
        o \in {x \in Observations : ~FrameRaises(x)}}

Histories(dlib) ==
    UNION {[1..n -> FrameValues(dlib)] : n \in 0..MaxHistory}

InitFinal ==
    /\ DLIB_AVAILABLE \in BOOLEAN
    /\ \E child \in Children, module \in Modules :
         \E h \in Histories(DLIB_AVAILABLE) :
            sessions = [i \in {"s1"} |->
                [NewSession(child, module) EXCEPT
                    !.frames = h,
                    !.stats = IF h = <<>> THEN EmptyStats ELSE StatsOf(h)]]
    /\ used = {"s1"}
    /\ active_connections = [i \in {} |-> "none"]
    /\ conns = [c \in Conns |-> ClosedConn]
    /\ db_attempts = [i \in SessionIds |-> 0]
    /\ resp = NoResponse

NextFinal ==
    \/ \E id \in SessionIds, outcome \in DbOutcomes : EndSession(id, outcome)
    \/ \E id \in SessionIds : GetSessionStats(id)

SpecFinal == InitFinal /\ [][NextFinal]_vars

----------------------------------------------------------------------------
(* The frame pipeline on one stream: a session has been started and a stream
   opened for it; frames of every kind arrive, a face with eye ratios on
   both sides of EAR_THRESH and with tilts on both sides of ANGLE_MAX or
   computed from eye centers, and the session can be ended at any point. *)

PipelineTilts == TiltInputs \cup {ANGLE_MAX + 1}

PipelineObservations ==
    Observations
    \cup {[kind |-> "face", ear |-> e, tilt |-> t, quality |-> q] :
            e \in EarInputs, t \in PipelineTilts, q \in QualityInputs}
    \cup {Landmarks(e, l, r, q) :
            e \in EarInputs, l \in Centers, r \in Centers,
            q \in QualityInputs}

InitPipeline ==
    /\ DLIB_AVAILABLE \in BOOLEAN
    /\ sessions = [i \in {"s1"} |-> NewSession("c1", "m1")]
    /\ used = {"s1"}
    /\ active_connections = [i \in {"s1"} |-> "w1"]
    /\ conns = [c \in Conns |->
                  IF c = "w1"
                  THEN [pc |-> "receive", sid |-> "s1", metrics |-> None]
                  ELSE ClosedConn]
    /\ db_attempts = [i \in SessionIds |-> 0]
    /\ resp = NoResponse

NextPipeline ==
    \/ \E c \in Conns, obs \in PipelineObservations : WsFrame(c, obs)
    \/ \E id \in SessionIds, outcome \in DbOutcomes : EndSession(id, outcome)
    \/ \E c \in Conns : WsSendMetrics(c)
    \/ \E c \in Conns : WsSendStats(c)

SpecPipeline == InitPipeline /\ [][NextPipeline]_vars

----------------------------------------------------------------------------
(* Properties *)

Retired == used \ Live

AttentiveCount(frames) ==
    Cardinality({i \in 1..Len(frames) : frames[i].is_attentive})

(* the step just taken answered end_session(id) with a summary *)
EndedOk(id) ==
    /\ resp'.op = "end_session"
    /\ resp'.id = id
    /\ resp'.status = OkStatus

(* the step just taken answered the request op on id *)
Answered(op, id) == resp'.op = op /\ resp'.id = id

(* C1: analyze_frame called for a session id that is not in the live table
   returns no verdict to the caller (it fails with SessionNotFound). *)
C1_UnknownIdGetsNoVerdict ==
    [][\A c \in Conns :
         (conns[c].pc = "receive" /\ conns[c].sid \notin Live)
             => conns'[c].pc # "send_metrics"]_vars

(* C2: once end_session(id) has returned a summary the id is absent from the
   live table in every later state, whatever runs afterwards (frames on a
   stream still open for the id, further requests), and a later end_session
   or get_session_stats on the id is answered 404 "Session not found". *)
C2_RetiredForGood ==
    [][\A id \in SessionIds :
         /\ EndedOk(id) => id \in Retired'
         /\ id \in Retired => id \in Retired'
         /\ (id \in Retired /\ (Answered("end_session", id)
                                  \/ Answered("get_session_stats", id)))
                => (/\ resp'.status = NotFoundStatus
                    /\ resp'.detail = NotFoundDetail
                    /\ resp'.body = None)]_vars

(* a second end_session on a retired id is refused while a stream opened for
   that id has just had a frame analyzed *)
C2_Witness ==
    /\ resp.op = "end_session"
    /\ resp.status = NotFoundStatus
    /\ resp.id \in Retired
    /\ \E c \in Conns : conns[c].sid = resp.id /\ conns[c].pc = "send_metrics"

(* C3: end_session on a live session with an empty frame history is refused
   with "No frames analyzed in session", returns no summary, and the refusal
   differs from the one for an unknown id. *)
C3_EmptySessionRefused ==
    [][\A id \in SessionIds :
         (id \in Live /\ sessions[id].frames = <<>> /\ Answered("end_session", id))
             => (/\ resp'.status # OkStatus
                 /\ resp'.body = None
                 /\ resp'.detail = EmptyDetail
                 /\ resp'.detail # NotFoundDetail)]_vars

C3_Witness ==
    /\ resp.op = "end_session"
    /\ resp.detail = EmptyDetail
    /\ resp.id \in Live
    /\ sessions[resp.id].frames = <<>>

(* C4: in every reachable state every live session has statistics whose
   total_frames is the length of its history and whose attentive_frames is
   the number of attentive frames in it. *)
C4_StatsMatchHistory ==
    \A id \in Live :
        LET stats == sessions[id].stats
            frames == sessions[id].frames
        IN  /\ {"total_frames", "attentive_frames"} \subseteq DOMAIN stats
            /\ stats.total_frames = Len(frames)
            /\ stats.attentive_frames = AttentiveCount(frames)

(* C5: every analyze_frame call for a live session appends exactly one frame
   to the history of that session, a frame that fails to decode included. *)
C5_EveryFrameAppended ==
    [][\A c \in Conns :
         LET sid == conns[c].sid
         IN  (conns[c].pc = "receive" /\ sid \in Live
                  /\ conns'[c].pc = "send_metrics")
                 => (/\ sid \in Live'
                     /\ Len(sessions'[sid].frames)
                            = Len(sessions[sid].frames) + 1)]_vars

(* C6: a frame that fails to decode or makes the detector raise does not end
   the stream: the verdict handed to send_json is not attentive, without a
   face, with ear, tilt and quality 0, and once it is sent the loop goes on
   to the stats message or to the next receive. *)
C6_FailureDegrades ==
    [][\A c \in Conns :
         /\ \A obs \in StreamObservations :
              (FrameRaises(obs) /\ WsFrame(c, obs))
                  => (/\ conns'[c].pc = "send_metrics"
                      /\ conns'[c].sid = conns[c].sid
                      /\ conns'[c].metrics.is_attentive = FALSE
                      /\ conns'[c].metrics.face_detected = FALSE
                      /\ conns'[c].metrics.eye_aspect_ratio = 0
                      /\ conns'[c].metrics.head_tilt_degrees = 0
                      /\ conns'[c].metrics.camera_quality = 0)
         /\ (conns[c].pc = "send_metrics" /\ WsSendMetrics(c))
                => conns'[c].pc \in {"receive", "send_stats"}]_vars

(* the degraded verdict is about to be sent on a stream of a live session *)
C6_Witness ==
    \E c \in Conns :
        /\ conns[c].pc = "send_metrics"
        /\ conns[c].sid \in Live
        /\ conns[c].metrics = DefaultMetrics(conns[c].sid)

(* C7: attention_breaks of the summary is the number of positions where an
   attentive frame is followed at once by a non-attentive one; a run that
   reaches the end of the history adds no break. *)
BreakPositions(frames) ==
    {i \in 1..(Len(frames) - 1) :
        frames[i].is_attentive /\ ~frames[i + 1].is_attentive}

C7_BreaksAreTransitions ==
    [][\A id \in SessionIds :
         EndedOk(id) =>
             resp'.body.attention_breaks
                 = Cardinality(BreakPositions(sessions[id].frames))]_vars

(* the summary of a history such as [A,A,A,N,A,A,N,A] *)
C7_Witness ==
    /\ resp.op = "end_session"
    /\ resp.status = OkStatus
    /\ resp.body.total_frames = 8
    /\ resp.body.attentive_frames = 6
    /\ resp.body.attention_breaks = 2
    /\ resp.body.longest_attention_span = 3
    /\ resp.body.avg_attention_span = Rat(2, 1)

(* C8: longest_attention_span is the length of the longest maximal run of
   attentive frames (0 without one) and avg_attention_span the mean length
   of all maximal runs, the trailing one included (0 without one). *)
MaximalRuns(frames) ==
    {r \in (1..Len(frames)) \X (1..Len(frames)) :
        /\ r[1] <= r[2]
        /\ \A i \in r[1]..r[2] : frames[i].is_attentive
        /\ r[1] = 1 \/ ~frames[r[1] - 1].is_attentive
        /\ r[2] = Len(frames) \/ ~frames[r[2] + 1].is_attentive}

RunLength(r) == r[2] - r[1] + 1

RECURSIVE TotalLength(_)
TotalLength(runs) ==
    IF runs = {} THEN 0
    ELSE LET r == CHOOSE x \in runs : TRUE
         IN  RunLength(r) + TotalLength(runs \ {r})

C8_SpansAreMaximalRuns ==
    [][\A id \in SessionIds :
         EndedOk(id) =>
             LET runs == MaximalRuns(sessions[id].frames)
             IN  /\ \A r \in runs : RunLength(r) <= resp'.body.longest_attention_span
                 /\ runs # {} =>
                        \E r \in runs :
                            RunLength(r) = resp'.body.longest_attention_span
                 /\ runs = {} => resp'.body.longest_attention_span = 0
                 /\ resp'.body.avg_attention_span.num * Cardinality(runs)
                        = TotalLength(runs) * resp'.body.avg_attention_span.den
                 /\ runs = {} => resp'.body.avg_attention_span = Zero]_vars

(* the summary of a history such as [A,A,N,A]: runs 2 and 1, mean 3/2 *)
C8_Witness ==
    /\ resp.op = "end_session"
    /\ resp.status = OkStatus
    /\ resp.body.total_frames = 4
    /\ resp.body.longest_attention_span = 2
    /\ resp.body.avg_attention_span = Rat(3, 2)

(* C9: end_session on a live session with at least one frame, with the
   database connection or the insert failing, still answers with the summary
   and removes the session from the live table. *)
C9_PersistenceFailureTolerated ==
    [][\A id \in SessionIds :
         (id \in Live /\ sessions[id].frames # <<>> /\ Answered("end_session", id))
             => (/\ db_attempts'[id] = db_attempts[id] + 1
                 /\ resp'.status = OkStatus
                 /\ resp'.body = BuildSummary(id, sessions[id])
                 /\ id \notin Live')]_vars

C9_Witness ==
    /\ resp.op = "end_session"
    /\ resp.status = OkStatus
    /\ resp.id \notin Live
    /\ db_attempts[resp.id] = 1

(* C10: total_frames, attentive_frames and attention_score of the summary are
   those of the statistics of the session right before the call, and those
   recomputed from the whole history. *)
C10_SummaryEqualsRunningStats ==
    [][\A id \in SessionIds :
         EndedOk(id) =>
             LET stats == sessions[id].stats
                 frames == sessions[id].frames
             IN  /\ {"total_frames", "attentive_frames", "attention_score"}
                        \subseteq DOMAIN stats
                 /\ resp'.body.total_frames = stats.total_frames
                 /\ resp'.body.attentive_frames = stats.attentive_frames
                 /\ resp'.body.attention_score = stats.attention_score
                 /\ resp'.body.total_frames = Len(frames)
                 /\ resp'.body.attentive_frames = AttentiveCount(frames)
                 /\ resp'.body.attention_score.num * Len(frames)
                        = 100 * AttentiveCount(frames)
                              * resp'.body.attention_score.den]_vars

(* a summary of two frames, one of them attentive *)
C10_Witness ==
    /\ resp.op = "end_session"
    /\ resp.status = OkStatus
    /\ resp.body.total_frames = 2
    /\ resp.body.attentive_frames = 1
    /\ resp.body.attention_score = Rat(50, 1)

(* C11: start_session registers, under an id that was not in the live table,
   a session with an empty frame history and zeroed statistics: a
   get_session_stats on a live id with no frame recorded reports
   total_frames = 0, attentive_frames = 0 and attention_score = 0. *)
C11_FreshSessionZeroed ==
    [][/\ resp'.op = "start_session"
           => (/\ resp'.id \notin Live
               /\ resp'.id \in Live'
               /\ sessions'[resp'.id].frames = <<>>)
       /\ \A id \in SessionIds :
            (id \in Live /\ sessions[id].frames = <<>>
                /\ Answered("get_session_stats", id))
               => (/\ resp'.status = OkStatus
                   /\ {"total_frames", "attentive_frames", "attention_score"}
                          \subseteq DOMAIN resp'.body.stats
                   /\ resp'.body.stats.total_frames = 0
                   /\ resp'.body.stats.attentive_frames = 0
                   /\ resp'.body.stats.attention_score = Zero)]_vars

(* the step just taken is an end_session request on id or the analysis of a
   frame received on a stream opened for id *)
OperatedOn(id) ==
    \/ Answered("end_session", id)
    \/ \E c \in Conns : /\ conns[c].sid = id
                        /\ conns[c].pc = "receive"
                        /\ conns'[c].pc = "send_metrics"

(* C12: sessions are independent: a start_session, a recorded frame or an
   end_session for one id leaves every other live session in the live table
   with its frame history and statistics unchanged, so the statistics of a
   session are those of its own frame history whatever was interleaved. *)
C12_SessionsIndependent ==
    [][/\ \A b \in Live :
            ~OperatedOn(b) => (b \in Live' /\ sessions'[b] = sessions[b])
       /\ \A b \in Live' :
            sessions'[b].frames # <<>>
                => sessions'[b].stats = StatsOf(sessions'[b].frames)]_vars

(* two live sessions whose histories differ, one of them with a frame just
   analyzed *)
C12_Witness ==
    \E a \in Live, b \in Live, c \in Conns :
        /\ a # b
        /\ sessions[a].frames # <<>>
        /\ sessions[b].frames # <<>>
        /\ sessions[a].frames # sessions[b].frames
        /\ conns[c].sid = a
        /\ conns[c].pc = "send_metrics"

(* the step just taken closed the stream c *)
Closed(c) == conns[c].pc # "closed" /\ conns'[c].pc = "closed"

(* C13: closing a stream removes its entry from the connection table and
   never ends the session: the session table is unchanged, no summary is
   produced and nothing is handed to persistence; an id leaves the live
   table only in a step where end_session returns its summary. *)
C13_CloseKeepsSession ==
    [][/\ \A c \in Conns :
            Closed(c)
               => (/\ conns[c].sid \notin DOMAIN active_connections'
                   /\ \A i \in DOMAIN active_connections' :
                          active_connections'[i] # c
                   /\ sessions' = sessions
                   /\ db_attempts' = db_attempts
                   /\ resp' = NoResponse)
       /\ \A id \in Live : id \notin Live' => EndedOk(id)]_vars

(* every stream is closed, the last step closed one, and its session is
   still live with its frames and with no connection entry *)
C13_Witness ==
    /\ resp = NoResponse
    /\ \A c \in Conns : conns[c].pc = "closed"
    /\ \E id \in Live :
          /\ sessions[id].frames # <<>>
          /\ id \notin DOMAIN active_connections
          /\ db_attempts[id] = 0

(* the step just taken appended a frame received on stream c to the history
   of id *)
Appended(c, id) ==
    /\ conns[c].sid = id
    /\ conns[c].pc = "receive"
    /\ conns'[c].pc = "send_metrics"
    /\ id \in Live
    /\ sessions'[id] # sessions[id]

(* C14: for one session id an append (history plus statistics) and an
   end_session (scan, summary, persistence call, removal) each take effect
   as a whole, with no step of another append or end_session on the id in
   between: an append leaves the history one frame longer with the
   statistics rebuilt from it and changes no other session, and an
   end_session that returns a summary returns the one of the history as it
   is at removal, with every frame of it counted, makes its one persistence
   call and removes the id in the same step. *)
C14_FrameAndEndAreWhole ==
    [][\A id \in SessionIds :
         /\ \A c \in Conns :
              Appended(c, id)
                 => (/\ sessions'[id].frames =
                            Append(sessions[id].frames,
                                   FrameOf(conns'[c].metrics))
                     /\ sessions'[id].stats = StatsOf(sessions'[id].frames)
                     /\ Live' = Live
                     /\ db_attempts' = db_attempts)
         /\ EndedOk(id)
               => (/\ id \in Live
                   /\ resp'.body = BuildSummary(id, sessions[id])
                   /\ resp'.body.total_frames = Len(sessions[id].frames)
                   /\ resp'.body.attentive_frames =
                          AttentiveCount(sessions[id].frames)
                   /\ db_attempts'[id] = db_attempts[id] + 1
                   /\ sessions' = RemoveSession(sessions, id)
                   /\ conns' = conns)]_vars

(* end_session has returned the summary of a history of two frames while a
   stream opened for the id is still waiting for its next frame *)
C14_Witness ==
    /\ resp.op = "end_session"
    /\ resp.status = OkStatus
    /\ resp.body.total_frames >= 2
    /\ resp.id \notin Live
    /\ \E c \in Conns : conns[c].sid = resp.id /\ conns[c].pc = "receive"

(* C15: for each session id at most one summary is ever produced and
   persistence is called at most once: an end_session returns a summary only
   for an id that has had no persistence call yet, and once one end_session
   has returned the summary of an id every other end_session on that id is
   answered 404 "Session not found" with no summary and no further
   persistence call. *)
C15_OneSummaryPerId ==
    [][\A id \in SessionIds :
         /\ db_attempts'[id] <= 1
         /\ EndedOk(id) => (db_attempts[id] = 0 /\ db_attempts'[id] = 1)
         /\ (db_attempts[id] >= 1 /\ Answered("end_session", id))
               => (/\ resp'.status = NotFoundStatus
                   /\ resp'.detail = NotFoundDetail
                   /\ resp'.body = None
                   /\ db_attempts' = db_attempts)]_vars

(* the second of two end_session calls on an id has just been refused: the
   first one returned the summary and made the one persistence call *)
C15_Witness ==
    /\ resp.op = "end_session"
    /\ resp.status = NotFoundStatus
    /\ resp.detail = NotFoundDetail
    /\ db_attempts[resp.id] = 1
    /\ \A c \in Conns : conns[c].pc = "closed"

(* the step just taken analyzed the frame obs received on stream c and
   produced a verdict *)
Analyzed(c, obs) == WsFrame(c, obs) /\ conns'[c].pc = "send_metrics"

(* C16: a frame in which no face is observed gets a verdict with
   face_detected = false, is_attentive = false, eye_aspect_ratio = 0 and
   head_tilt_degrees = 0; every frame stored in a history with
   face_detected = false is non-attentive, and attentive_frames never
   exceeds frames_with_face. *)
C16_NoFaceNotAttentive ==
    [][/\ \A c \in Conns, obs \in PipelineObservations :
            (obs.kind = "noface" /\ Analyzed(c, obs))
               => (/\ ~conns'[c].metrics.face_detected
                   /\ ~conns'[c].metrics.is_attentive
                   /\ conns'[c].metrics.eye_aspect_ratio = 0
                   /\ conns'[c].metrics.head_tilt_degrees = 0
                   /\ conns'[c].metrics.camera_quality = obs.quality)
       /\ \A id \in Live' :
            /\ \A i \in 1..Len(sessions'[id].frames) :
                  ~sessions'[id].frames[i].face_detected
                      => ~sessions'[id].frames[i].is_attentive
            /\ sessions'[id].frames # <<>>
                  => sessions'[id].stats.attentive_frames
                         <= sessions'[id].stats.frames_with_face]_vars

(* a frame without a face has just been classified after an attentive one:
   the history holds both and the verdict on its way out says no face *)
C16_Witness ==
    \E c \in Conns :
        /\ conns[c].pc = "send_metrics"
        /\ conns[c].sid \in Live
        /\ ~conns[c].metrics.face_detected
        /\ conns[c].metrics.camera_quality > 0
        /\ Len(sessions[conns[c].sid].frames) = 2
        /\ sessions[conns[c].sid].frames[1].is_attentive
        /\ ~sessions[conns[c].sid].frames[2].face_detected
        /\ sessions[conns[c].sid].stats.attentive_frames = 1
        /\ sessions[conns[c].sid].stats.frames_with_face = 1

(* C17: when a face is observed the verdict is attentive exactly when its
   eye_aspect_ratio is at least 0.23 (23 hundredths) and its
   head_tilt_degrees is at most 20, both bounds included; the rule is the
   same with the landmark detector, where the two values are the measured
   ones, and with the coarse detector. *)
C17_ThresholdRule ==
    [][\A c \in Conns, obs \in PipelineObservations :
         (obs.kind = "face" /\ Analyzed(c, obs))
            => (/\ conns'[c].metrics.face_detected
                /\ conns'[c].metrics.is_attentive
                     <=> (/\ conns'[c].metrics.eye_aspect_ratio >= 23
                          /\ conns'[c].metrics.head_tilt_degrees <= 20)
                /\ DLIB_AVAILABLE
                     => (/\ conns'[c].metrics.eye_aspect_ratio = obs.ear
                         /\ conns'[c].metrics.head_tilt_degrees = obs.tilt))]_vars

(* with landmarks, a face on both bounds has just been found attentive after
   a face one degree beyond the tilt bound was found not attentive *)
C17_Witness ==
    \E c \in Conns :
        /\ DLIB_AVAILABLE
        /\ conns[c].pc = "send_metrics"
        /\ conns[c].metrics.face_detected
        /\ conns[c].metrics.eye_aspect_ratio = 23
        /\ conns[c].metrics.head_tilt_degrees = 20
        /\ conns[c].metrics.is_attentive
        /\ conns[c].sid \in Live
        /\ Len(sessions[conns[c].sid].frames) = 2
        /\ sessions[conns[c].sid].frames[1].ear = 23
        /\ sessions[conns[c].sid].frames[1].tilt = 21
        /\ ~sessions[conns[c].sid].frames[1].is_attentive

(* C18: with the coarse (Haar) detector every frame in which a face is
   detected is classified attentive: the verdict of every frame has
   is_attentive = face_detected, and when a face is present its
   eye_aspect_ratio is the neutral 0.3 (30 hundredths) and its
   head_tilt_degrees is 0, whatever the eyes and the head do. *)
C18_CoarseFaceIsAttentive ==
    [][\A c \in Conns, obs \in PipelineObservations :
         (~DLIB_AVAILABLE /\ Analyzed(c, obs))
            => (/\ conns'[c].metrics.is_attentive
                     = conns'[c].metrics.face_detected
                /\ conns'[c].metrics.face_detected
                     = (obs.kind = "face")
                /\ conns'[c].metrics.face_detected
                     => (/\ conns'[c].metrics.eye_aspect_ratio = 30
                         /\ conns'[c].metrics.head_tilt_degrees = 0))]_vars

(* without landmarks, two faces have been recorded as attentive with the
   neutral values, the second one just now *)
C18_Witness ==
    \E c \in Conns :
        /\ ~DLIB_AVAILABLE
        /\ conns[c].pc = "send_metrics"
        /\ conns[c].metrics.face_detected
        /\ conns[c].metrics.is_attentive
        /\ conns[c].metrics.eye_aspect_ratio = 30
        /\ conns[c].sid \in Live
        /\ sessions[conns[c].sid].stats.attentive_frames = 2
        /\ sessions[conns[c].sid].stats.avg_ear = Rat(30, 1)
        /\ sessions[conns[c].sid].stats.avg_tilt = Zero

(* the fraction score is attentive / total * 100 and lies in 0..100 *)
IsScoreOf(score, attentive, total) ==
    /\ score.den > 0
    /\ score.num * total = attentive * 100 * score.den
    /\ 0 <= score.num
    /\ score.num <= 100 * score.den

(* C19: after every append the attention_score of the session is
   attentive_frames / total_frames * 100 over its history, between 0 and
   100 inclusive, and the score of the summary end_session returns is the
   same quotient over the history it ends. *)
C19_ScoreIsPercentage ==
    [][\A id \in SessionIds :
         /\ \A c \in Conns :
              Appended(c, id)
                 => (/\ sessions'[id].stats.total_frames
                            = Len(sessions'[id].frames)
                     /\ sessions'[id].stats.total_frames > 0
                     /\ sessions'[id].stats.attentive_frames
                            = AttentiveCount(sessions'[id].frames)
                     /\ IsScoreOf(sessions'[id].stats.attention_score,
                                  sessions'[id].stats.attentive_frames,
                                  sessions'[id].stats.total_frames))
         /\ EndedOk(id)
               => IsScoreOf(resp'.body.attention_score,
                            AttentiveCount(sessions[id].frames),
                            Len(sessions[id].frames))]_vars

(* one attentive frame out of two: the score after the
   second append is 50, and the summary of that history says 50 *)
C19_Witness ==
    /\ resp.op = "end_session"
    /\ resp.status = OkStatus
    /\ resp.body.total_frames = 2
    /\ resp.body.attentive_frames = 1
    /\ resp.body.attention_score = Rat(50, 1)

(* the step just taken analyzed, with landmarks, a face whose eye centers
   are l and r *)
AnalyzedEyes(c, l, r) ==
    /\ DLIB_AVAILABLE
    /\ \E e \in EarInputs, q \in QualityInputs :
          Analyzed(c, Landmarks(e, l, r, q))

(* C20, as stated: head_tilt_degrees (angle_between_eyes) is 90 whenever the
   two eye centers have equal y-coordinates. *)
C20_EqualYGives90 ==
    [][\A c \in Conns, l \in Centers, r \in Centers :
         (l.y = r.y /\ AnalyzedEyes(c, l, r))
            => conns'[c].metrics.head_tilt_degrees = 90]_vars

(* C20, amended: head_tilt_degrees (angle_between_eyes) is 90 whenever the
   two eye centers have equal x-coordinates; with equal y-coordinates and
   different x-coordinates it is 0 when the right center lies to the right
   of the left one and 180 when it lies to the left. *)
C20_EqualXGives90 ==
    [][\A c \in Conns, l \in Centers, r \in Centers :
         /\ (l.x = r.x /\ AnalyzedEyes(c, l, r))
               => conns'[c].metrics.head_tilt_degrees = 90
         /\ (l.y = r.y /\ l.x < r.x /\ AnalyzedEyes(c, l, r))
               => conns'[c].metrics.head_tilt_degrees = 0
         /\ (l.y = r.y /\ l.x > r.x /\ AnalyzedEyes(c, l, r))
               => conns'[c].metrics.head_tilt_degrees = 180]_vars

(* with landmarks, a face with level eyes (tilt 0) was recorded and a face
   whose tilt is 90 has just been analyzed *)
C20_Witness ==
    \E c \in Conns :
        /\ DLIB_AVAILABLE
        /\ conns[c].pc = "send_metrics"
        /\ conns[c].metrics.face_detected
        /\ conns[c].metrics.head_tilt_degrees = 90
        /\ ~conns[c].metrics.is_attentive
        /\ conns[c].sid \in Live
        /\ Len(sessions[conns[c].sid].frames) = 2
        /\ sessions[conns[c].sid].frames[1].face_detected
        /\ sessions[conns[c].sid].frames[1].tilt = 0
        /\ sessions[conns[c].sid].frames[1].ear = EAR_THRESH

(* C21: the engagement_level of a summary is decided by its attention_score
   alone: "high" exactly when the score is at least 80, "medium" exactly
   when it is at least 50 and below 80, "low" exactly when it is below 50;
   it is always one of the three. *)
C21_EngagementFromScore ==
    [][\A id \in SessionIds :
         EndedOk(id)
            => LET score == resp'.body.attention_score
                   level == resp'.body.engagement_level
               IN  /\ level \in {"high", "medium", "low"}
                   /\ level = "high" <=> score.num >= 80 * score.den
                   /\ level = "medium"
                        <=> (/\ score.num >= 50 * score.den
                             /\ score.num < 80 * score.den)
                   /\ level = "low" <=> score.num < 50 * score.den
                   /\ IsScoreOf(score, AttentiveCount(sessions[id].frames),
                                Len(sessions[id].frames))]_vars

(* a summary whose score is exactly 80, four attentive frames out of five,
   has level "high" *)
C21_Witness ==
    /\ resp.op = "end_session"
    /\ resp.status = OkStatus
    /\ resp.body.total_frames = 5
    /\ resp.body.attention_score = Rat(80, 1)
    /\ resp.body.engagement_level = "high"

(* C22: on a stream, a verdict is pending only for a frame just received and
   stays the same until it is sent; no frame is received and no stats
   message is sent while a verdict is pending, so each received frame has
   one verdict sent before its stats message and before the next frame; a
   stats message follows the verdict exactly when the session id of the
   stream is in the live table when the verdict has gone out. *)
C22_VerdictThenStats ==
    [][\A c \in Conns :
         /\ (conns'[c].pc = "send_metrics" /\ conns[c].pc # "send_metrics")
               => (conns[c].pc = "receive" /\ conns'[c].metrics # None)
         /\ (conns[c].pc = "send_metrics" /\ conns'[c].pc = "send_metrics")
               => conns'[c].metrics = conns[c].metrics
         /\ (conns[c].pc = "send_metrics" /\ conns'[c].pc # "send_metrics")
               => (/\ conns'[c].pc \in {"send_stats", "receive", "closed"}
                   /\ conns'[c].pc = "send_stats"
                        => conns[c].sid \in Live
                   /\ conns'[c].pc = "receive"
                        => conns[c].sid \notin Live
                   /\ sessions' = sessions)
         /\ (conns'[c].pc = "send_stats" /\ conns[c].pc # "send_stats")
               => conns[c].pc = "send_metrics"
         /\ (conns[c].pc = "send_stats" /\ conns'[c].pc # "send_stats")
               => conns'[c].pc \in {"receive", "closed"}
         /\ (conns[c].pc \in {"send_metrics", "send_stats"}
                /\ conns[c].sid \in Live /\ conns[c].sid \in Live'
                /\ \A d \in Conns \ {c} : conns'[d] = conns[d])
               => sessions'[conns[c].sid].frames
                     = sessions[conns[c].sid].frames]_vars

(* one stream is about to send the stats message that follows its verdict,
   its session being live, while the other holds a verdict for a session
   that has been ended, which no stats message will follow *)
C22_Witness ==
    \E c \in Conns, d \in Conns :
        /\ conns[c].pc = "send_stats"
        /\ conns[c].sid \in Live
        /\ sessions[conns[c].sid].frames # <<>>
        /\ conns[d].pc = "send_metrics"
        /\ conns[d].sid \in Retired

IsPrefix(s, t) == Len(s) <= Len(t) /\ SubSeq(t, 1, Len(s)) = s

(* C23: the frame history of a live session is append-only and in arrival
   order: in every step the old history of a session that stays live is a
   prefix of the new one, it grows by at most one entry, and an entry that
   is added is the frame just received on a stream of that session, placed
   last. *)
C23_HistoryAppendOnly ==
    [][\A id \in Live :
         id \in Live'
            => (/\ IsPrefix(sessions[id].frames, sessions'[id].frames)
                /\ Len(sessions'[id].frames) <= Len(sessions[id].frames) + 1
                /\ sessions'[id].frames # sessions[id].frames
                     => \E c \in Conns :
                           /\ Appended(c, id)
                           /\ sessions'[id].frames[Len(sessions'[id].frames)]
                                 = FrameOf(conns'[c].metrics))]_vars

(* two different frames sit in the history in the order they arrived: the
   first an attentive face, the second, just analyzed, without a face *)
C23_Witness ==
    \E c \in Conns :
        /\ conns[c].pc = "send_metrics"
        /\ conns[c].sid \in Live
        /\ Len(sessions[conns[c].sid].frames) = 2
        /\ sessions[conns[c].sid].frames[2] = FrameOf(conns[c].metrics)
        /\ sessions[conns[c].sid].frames[1].is_attentive
        /\ ~sessions[conns[c].sid].frames[2].face_detected
        /\ sessions[conns[c].sid].frames[1] # sessions[conns[c].sid].frames[2]

(* the step just taken was an end_session on id that was refused *)
EndRefused(id) == Answered("end_session", id) /\ resp'.status # OkStatus

(* C24: an end_session that is refused (unknown id or empty history) changes
   nothing a later operation can observe: the set of live ids, the streams,
   the connection table and the persistence calls are unchanged, every other
   session is unchanged, and a session refused for its empty history stays
   live with the empty history and its statistics, child and module; only
   the end_time stamp, which no operation reads, is written.  A frame
   received afterwards gets the same verdict and leaves the same history and
   statistics as without the refused call, and an end_session after it
   returns the same summary. *)
C24_RefusedEndChangesNothing ==
    [][\A id \in SessionIds :
         EndRefused(id)
            => (/\ resp'.body = None
                /\ resp'.detail \in {NotFoundDetail, EmptyDetail}
                /\ Live' = Live
                /\ used' = used
                /\ conns' = conns
                /\ active_connections' = active_connections
                /\ db_attempts' = db_attempts
                /\ \A b \in Live \ {id} : sessions'[b] = sessions[b]
                /\ id \in Live
                     => (/\ sessions[id].frames = <<>>
                         /\ sessions'[id].frames = <<>>
                         /\ sessions'[id].stats = sessions[id].stats
                         /\ sessions'[id].child_id = sessions[id].child_id
                         /\ sessions'[id].module_id = sessions[id].module_id
                         /\ sessions' = StampEndTime(sessions, id)
                         /\ StatsMessage(sessions', id)
                               = StatsMessage(sessions, id))
                /\ \A obs \in PipelineObservations :
                     LET before == analyze_frame(DLIB_AVAILABLE, sessions,
                                                 obs, id)
                         after == analyze_frame(DLIB_AVAILABLE, sessions',
                                                obs, id)
                     IN  /\ after.metrics = before.metrics
                         /\ after.raised = before.raised
                         /\ after.sessions = StampEndTime(before.sessions, id)
                         /\ EndSessionError(after.sessions, id)
                               = EndSessionError(before.sessions, id)
                         /\ EndSessionError(after.sessions, id) = "none"
                              => BuildSummary(id, after.sessions[id])
                                    = BuildSummary(id, before.sessions[id]))]_vars

(* an end_session on a live session with no frame has just been refused:
   the session is still live and empty, stamped, with its stream waiting
   for a frame and no persistence call made *)
C24_Witness ==
    /\ resp.op = "end_session"
    /\ resp.detail = EmptyDetail
    /\ resp.id \in Live
    /\ sessions[resp.id].frames = <<>>
    /\ "end_time" \in DOMAIN sessions[resp.id]
    /\ db_attempts[resp.id] = 0
    /\ \E c \in Conns : conns[c].sid = resp.id /\ conns[c].pc = "receive"

(* C25: for every summary end_session returns, the attentive run lengths
   found by the scan sum to attentive_frames, their number is
   attention_breaks plus one when the last frame is attentive and
   attention_breaks otherwise, longest_attention_span is the largest of
   them, longest_attention_span <= attentive_frames <= total_frames, and
   longest_attention_span is 0 exactly when attentive_frames is 0. *)
C25_RunsAddUp ==
    [][\A id \in SessionIds :
         EndedOk(id)
            => LET frames == sessions[id].frames
                   spans == RunLengths(frames).attention_spans
                   body == resp'.body
               IN  /\ SumSeq(spans) = body.attentive_frames
                   /\ \A i \in 1..Len(spans) :
                         spans[i] >= 1
                            /\ spans[i] <= body.longest_attention_span
                   /\ Len(spans) =
                         body.attention_breaks
                           + (IF frames[Len(frames)].is_attentive
                              THEN 1 ELSE 0)
                   /\ body.longest_attention_span <= body.attentive_frames
                   /\ body.attentive_frames <= body.total_frames
                   /\ body.attentive_frames = AttentiveCount(frames)
                   /\ body.total_frames = Len(frames)
                   /\ body.longest_attention_span = 0
                         <=> body.attentive_frames = 0]_vars

(* a summary of seven frames with runs of 2, 1 and 2 attentive frames: two
   breaks and a last frame that is attentive *)
C25_Witness ==
    /\ resp.op = "end_session"
    /\ resp.status = OkStatus
    /\ resp.body.total_frames = 7
    /\ resp.body.attentive_frames = 5
    /\ resp.body.attention_breaks = 2
    /\ resp.body.longest_attention_span = 2
    /\ resp.body.avg_attention_span = Rat(5, 3)

(* C26: the connection table has an entry for a session id whenever a
   stream for that id is open, also when several streams are opened for the
   same id and closed in any order. *)
C26_OpenStreamIsRegistered ==
    \A c \in Conns :
        conns[c].pc # "closed" => conns[c].sid \in DOMAIN active_connections

=============================================================================
